---------------------------- MODULE Spec2Model ----------------------------
(* NTS-KE server instantiation: KeServer::connect and KeServer::start of   *)
(* src/ke_server/context/server.rs, with the threads start spawns (the     *)
(* rotation worker, the optional metrics worker, one listener worker per   *)
(* configured address), the crossbeam WaitGroup start waits on, and the    *)
(* RwLock that guards the key rotator.                                     *)
EXTENDS Integers, Sequences, FiniteSets, TLC

(* ---- bounds of the model ---- *)
\* longest configured address list
MaxAddrs == 2
\* number of key rotations the rotation worker performs at most
MaxRotations == 2

(* ---- the environment: names, addresses, errors ---- *)
\* host strings a configuration may list
Hosts == {"h1", "h2", "alias1", "busy", "nx", "empty"}

\* socket address 9 is held by another process for the whole run
ExternalInUse == {9}

\* RotateError values KeyRotator::connect may return
RotateErrors == {"MemcacheError", "KeyError"}

\* an absent value (None, not yet built)
NoValue == [tag |-> "None"]

Positions == 1..MaxAddrs

\* ToSocketAddrs::to_socket_addrs: Err, or Ok with the candidates in order
to_socket_addrs(host) ==
    CASE host = "h1"     -> [ok |-> TRUE,  cands |-> <<1>>]
      [] host = "h2"     -> [ok |-> TRUE,  cands |-> <<2, 3>>]
      [] host = "alias1" -> [ok |-> TRUE,  cands |-> <<1>>]
      [] host = "busy"   -> [ok |-> TRUE,  cands |-> <<9>>]
      [] host = "empty"  -> [ok |-> TRUE,  cands |-> <<>>]
      [] OTHER           -> [ok |-> FALSE, cands |-> <<>>]

\* sequences over S of length at most n
SeqsUpTo(S, n) == UNION {[1..k -> S] : k \in 0..n}

\* the configurations connect may be handed
Configs ==
    [addrs           : SeqsUpTo(Hosts, MaxAddrs),
     metrics_config  : {"None", "Some"},
     tls_certs       : {<<"cert">>},
     tls_secret_keys : {<<>>, <<"goodkey", "badkey">>, <<"badkey", "goodkey">>},
     next_port       : {123},
     timeout         : {30}]

VARIABLES
    config,           \* the KeServerConfig the caller holds / KeServerState.config
    callerPc,         \* the caller: "init", "connected", "failed", "panicked"
    connectResult,    \* what connect returned: NoValue, [tag |-> "Ok"] or [tag |-> "Err", err]
    rotatorResult,    \* what KeyRotator::connect returned: "none", "Ok" or a RotateError
    rotatorConnects,  \* number of calls of KeyRotator::connect
    state,            \* KeServer.state: NoValue or [config, tls_server_config]
    listeners,        \* KeServer.listeners
    keys,             \* the KeyRotator behind the RwLock: two fields written one by one
    lock,             \* the RwLock: [writers : Nat, readers : SUBSET Positions], its holders
    torn,             \* TRUE once a reader has seen the two key fields disagree
    startPc,          \* start's position in its code
    idx,              \* start's loop index into config.addrs (1-based)
    curAddr,          \* the socket address the current iteration resolved
    failPos,          \* the position whose setup made start panic, 0 if none
    sockets,          \* position -> [st : "unbound", "listening" or "closed", addr]
    handlers,         \* position -> the NTSKeyServer built for it, or NoValue
    workers,          \* position -> the listener worker's state
    seen,             \* position -> the first key field a reader read under its read lock
    rotationWorker,   \* "none", "idle", "writing", "dead", "killed"
    metricsWorker,    \* "none", "running", "panicked", "exited", "killed"
    wgCount,          \* the WaitGroup's count of live handles
    wgMine,           \* TRUE while start holds its own WaitGroup handle
    spawnLog,         \* the threads spawned so far, in spawn order
    waitReturns,      \* number of times wg.wait() has returned
    process           \* "alive" or "exited"

connectVars == <<config, callerPc, connectResult, rotatorResult, rotatorConnects,
                 state, listeners>>
lockVars    == <<keys, lock, torn, seen>>
startVars   == <<startPc, idx, curAddr, failPos, handlers, wgMine, waitReturns>>
threadVars  == <<sockets, workers, rotationWorker, metricsWorker, wgCount, spawnLog,
                 process>>
vars == <<connectVars, lockVars, startVars, threadVars>>

(* ---- KeServer::connect ---- *)

\* set_single_cert without the check of the private key
set_single_cert_unchecked(certs, key) ==
    [ok |-> TRUE, cert |-> [chain |-> certs, key |-> key]]

\* rustls ServerConfig::set_single_cert: Err when the private key is not usable
set_single_cert(certs, key) ==
    IF key = "goodkey" /\ Len(certs) > 0
    THEN [ok |-> TRUE,  cert |-> [chain |-> certs, key |-> key]]
    ELSE [ok |-> FALSE, cert |-> NoValue]

\* BuildTlsServerConfig without the assignment of versions: rustls's default versions
BuildTlsServerConfigDefaultVersions(cfg) ==
    [tag         |-> "ServerConfig",
     client_auth |-> "NoClientAuth",
     versions    |-> <<"TLSv1_3", "TLSv1_2">>,
     cert        |-> set_single_cert(cfg.tls_certs, cfg.tls_secret_keys[1]).cert,
     alpn        |-> <<"ntske/1">>]

\* the block that builds tls_server_config, for a configuration it succeeds on
BuildTlsServerConfig(cfg) ==
    [tag         |-> "ServerConfig",
     client_auth |-> "NoClientAuth",
     versions    |-> <<"TLSv1_3">>,
     cert        |-> set_single_cert(cfg.tls_certs, cfg.tls_secret_keys[1]).cert,
     alpn        |-> <<"ntske/1">>]

\* whether building tls_server_config panics: tls_secret_keys[0] out of bounds, or
\* the expect on set_single_cert
TlsBuildPanics(cfg) ==
    \/ Len(cfg.tls_secret_keys) = 0
    \/ ~set_single_cert(cfg.tls_certs, cfg.tls_secret_keys[1]).ok

\* ConnectOutcome with the TLS configuration built before the key rotator is connected
ConnectOutcomeTlsFirst(cfg, r) ==
    IF TlsBuildPanics(cfg)
    THEN [kind |-> "panic", result |-> NoValue, state |-> NoValue]
    ELSE IF r # "Ok"
    THEN [kind |-> "Err", result |-> [tag |-> "Err", err |-> r], state |-> NoValue]
    ELSE [kind |-> "Ok", result |-> [tag |-> "Ok"],
          state |-> [tag |-> "KeServerState", config |-> cfg,
                     tls_server_config |-> BuildTlsServerConfig(cfg)]]

\* connect's outcome for configuration cfg when KeyRotator::connect returned r
ConnectOutcome(cfg, r) ==
    IF r # "Ok"
    THEN [kind |-> "Err", result |-> [tag |-> "Err", err |-> r], state |-> NoValue]
    ELSE IF TlsBuildPanics(cfg)
    THEN [kind |-> "panic", result |-> NoValue, state |-> NoValue]
    ELSE [kind |-> "Ok", result |-> [tag |-> "Ok"],
          state |-> [tag |-> "KeServerState", config |-> cfg,
                     tls_server_config |-> BuildTlsServerConfig(cfg)]]

Init ==
    /\ config \in Configs
    /\ callerPc = "init"
    /\ connectResult = NoValue
    /\ rotatorResult = "none"
    /\ rotatorConnects = 0
    /\ state = NoValue
    /\ listeners = <<>>
    /\ keys = [a |-> 0, b |-> 0]
    /\ lock = [writers |-> 0, readers |-> {}]
    /\ torn = FALSE
    /\ startPc = "notcalled"
    /\ idx = 0
    /\ curAddr = 0
    /\ failPos = 0
    /\ sockets = [p \in Positions |-> [st |-> "unbound", addr |-> 0]]
    /\ handlers = [p \in Positions |-> NoValue]
    /\ workers = [p \in Positions |-> "none"]
    /\ seen = [p \in Positions |-> 0]
    /\ rotationWorker = "none"
    /\ metricsWorker = "none"
    /\ wgCount = 0
    /\ wgMine = FALSE
    /\ spawnLog = <<>>
    /\ waitReturns = 0
    /\ process = "alive"

\* Connect with the rotation thread already started by a successful connect
ConnectStartsRotation ==
    /\ process = "alive"
    /\ callerPc = "init"
    /\ \E r \in {"Ok"} \cup RotateErrors :
         LET out == ConnectOutcome(config, r) IN
           /\ rotatorResult' = r
           /\ rotatorConnects' = rotatorConnects + 1
           /\ connectResult' = out.result
           /\ state' = out.state
           /\ callerPc' = CASE out.kind = "Ok"  -> "connected"
                             [] out.kind = "Err" -> "failed"
                             [] OTHER            -> "panicked"
           /\ rotationWorker' = IF out.kind = "Ok" THEN "idle" ELSE rotationWorker
    /\ listeners' = <<>>
    /\ UNCHANGED <<config, lockVars, startVars, sockets, workers, metricsWorker, wgCount,
                   spawnLog, process>>

\* the caller calls KeServer::connect(config); KeyRotator::connect returns r
Connect ==
    /\ process = "alive"
    /\ callerPc = "init"
    /\ \E r \in {"Ok"} \cup RotateErrors :
         LET out == ConnectOutcome(config, r) IN
           /\ rotatorResult' = r
           /\ rotatorConnects' = rotatorConnects + 1
           /\ connectResult' = out.result
           /\ state' = out.state
           /\ callerPc' = CASE out.kind = "Ok"  -> "connected"
                             [] out.kind = "Err" -> "failed"
                             [] OTHER            -> "panicked"
    /\ listeners' = <<>>
    /\ UNCHANGED <<config, lockVars, startVars, threadVars>>

(* ---- KeServer::start, on the orchestrating thread ---- *)

Addrs == state.config.addrs

\* where the for loop over config.addrs() goes when its next index is i
LoopPc(i) == IF i <= Len(Addrs) THEN "resolve" ELSE "wait"

\* an unwrap of the per-address setup fails: the orchestrating thread panics and
\* unwinds out of start, dropping its WaitGroup handle on the way
StartPanics ==
    /\ startPc' = "panicked"
    /\ failPos' = idx
    /\ wgCount' = wgCount - 1
    /\ wgMine' = FALSE

\* cfsock::tcp_listener: binding fails when the address is in use, by another
\* process or by a socket of this process that is still listening
tcp_listener_ok(addr) ==
    /\ addr \notin ExternalInUse
    /\ \A p \in Positions : ~(sockets[p].st = "listening" /\ sockets[p].addr = addr)

\* NTSKeyServer::new with the arguments start passes for the current address
NewHandler ==
    [tag               |-> "NTSKeyServer",
     addr              |-> curAddr,
     tls_server_config |-> state.tls_server_config,
     next_port         |-> state.config.next_port,
     timeout           |-> state.config.timeout]

\* StartRotate with the key rotator connected once more before the thread is spawned
StartRotateReconnects ==
    /\ process = "alive"
    /\ callerPc = "connected"
    /\ startPc = "notcalled"
    /\ rotatorConnects' = rotatorConnects + 1
    /\ rotationWorker' = "idle"
    /\ spawnLog' = Append(spawnLog, [kind |-> "rotation", pos |-> 0])
    /\ startPc' = "metrics"
    /\ UNCHANGED <<config, callerPc, connectResult, rotatorResult, state, listeners,
                   lockVars, idx, curAddr, failPos, handlers, wgMine,
                   waitReturns, sockets, workers, metricsWorker, wgCount, process>>

\* periodic_rotate(mutable_rotator): the rotation thread is spawned
StartRotate ==
    /\ process = "alive"
    /\ callerPc = "connected"
    /\ startPc = "notcalled"
    /\ rotationWorker' = "idle"
    /\ spawnLog' = Append(spawnLog, [kind |-> "rotation", pos |-> 0])
    /\ startPc' = "metrics"
    /\ UNCHANGED <<connectVars, lockVars, idx, curAddr, failPos, handlers, wgMine,
                   waitReturns, sockets, workers, metricsWorker, wgCount, process>>

\* StartMetrics with the metrics thread spawned whether or not it is configured
StartMetricsAlways ==
    /\ process = "alive"
    /\ startPc = "metrics"
    /\ metricsWorker' = "running"
    /\ spawnLog' = Append(spawnLog, [kind |-> "metrics", pos |-> 0])
    /\ startPc' = "newwg"
    /\ UNCHANGED <<connectVars, lockVars, idx, curAddr, failPos, handlers, wgMine,
                   waitReturns, sockets, workers, rotationWorker, wgCount, process>>

\* StartMetrics with the metrics configuration taken out of the configuration, not cloned
StartMetricsTakes ==
    /\ process = "alive"
    /\ startPc = "metrics"
    /\ IF state.config.metrics_config = "Some"
       THEN /\ metricsWorker' = "running"
            /\ spawnLog' = Append(spawnLog, [kind |-> "metrics", pos |-> 0])
            /\ state' = [state EXCEPT !.config.metrics_config = "None"]
       ELSE UNCHANGED <<metricsWorker, spawnLog, state>>
    /\ startPc' = "newwg"
    /\ UNCHANGED <<config, callerPc, connectResult, rotatorResult, rotatorConnects,
                   listeners, lockVars, idx, curAddr, failPos, handlers, wgMine,
                   waitReturns, sockets, workers, rotationWorker, wgCount, process>>

\* if let Some(metrics_config) = ... : the metrics thread is spawned
StartMetrics ==
    /\ process = "alive"
    /\ startPc = "metrics"
    /\ IF state.config.metrics_config = "Some"
       THEN /\ metricsWorker' = "running"
            /\ spawnLog' = Append(spawnLog, [kind |-> "metrics", pos |-> 0])
       ELSE UNCHANGED <<metricsWorker, spawnLog>>
    /\ startPc' = "newwg"
    /\ UNCHANGED <<connectVars, lockVars, idx, curAddr, failPos, handlers, wgMine,
                   waitReturns, sockets, workers, rotationWorker, wgCount, process>>

\* let wg = WaitGroup::new(); and entry into the for loop
StartNewWaitGroup ==
    /\ process = "alive"
    /\ startPc = "newwg"
    /\ wgCount' = 1
    /\ wgMine' = TRUE
    /\ idx' = 1
    /\ startPc' = LoopPc(1)
    /\ UNCHANGED <<connectVars, lockVars, curAddr, failPos, handlers, waitReturns,
                   sockets, workers, rotationWorker, metricsWorker, spawnLog, process>>

\* addr.to_socket_addrs().unwrap().next().unwrap()
StartResolve ==
    /\ process = "alive"
    /\ startPc = "resolve"
    /\ LET r == to_socket_addrs(Addrs[idx]) IN
         IF r.ok /\ Len(r.cands) > 0
         THEN /\ curAddr' = r.cands[1]
              /\ startPc' = "bind"
              /\ UNCHANGED <<failPos, wgCount, wgMine>>
         ELSE /\ StartPanics
              /\ UNCHANGED curAddr
    /\ UNCHANGED <<connectVars, lockVars, idx, handlers, waitReturns, sockets, workers,
                   rotationWorker, metricsWorker, spawnLog, process>>

\* StartBind with a failed bind logged and the address passed over, instead of unwrapped
StartBindContinues ==
    /\ process = "alive"
    /\ startPc = "bind"
    /\ IF tcp_listener_ok(curAddr)
       THEN /\ sockets' = [sockets EXCEPT ![idx] = [st |-> "listening", addr |-> curAddr]]
            /\ startPc' = "construct"
            /\ UNCHANGED <<failPos, idx>>
       ELSE /\ failPos' = idx
            /\ idx' = idx + 1
            /\ startPc' = LoopPc(idx + 1)
            /\ UNCHANGED sockets
    /\ UNCHANGED <<connectVars, lockVars, curAddr, handlers, waitReturns, workers,
                   rotationWorker, metricsWorker, spawnLog, process, wgCount, wgMine>>

\* cfsock::tcp_listener(&addr).unwrap()
StartBind ==
    /\ process = "alive"
    /\ startPc = "bind"
    /\ IF tcp_listener_ok(curAddr)
       THEN /\ sockets' = [sockets EXCEPT ![idx] = [st |-> "listening", addr |-> curAddr]]
            /\ startPc' = "construct"
            /\ UNCHANGED <<failPos, wgCount, wgMine>>
       ELSE /\ StartPanics
            /\ UNCHANGED sockets
    /\ UNCHANGED <<connectVars, lockVars, idx, curAddr, handlers, waitReturns, workers,
                   rotationWorker, metricsWorker, spawnLog, process>>

\* NTSKeyServer::new(TcpListener::from_listener(..).unwrap(), ..).unwrap(): when
\* either fails the listener it was given is dropped, which closes the socket
StartConstruct ==
    /\ process = "alive"
    /\ startPc = "construct"
    /\ \E ok \in BOOLEAN :
         IF ok
         THEN /\ handlers' = [handlers EXCEPT ![idx] = NewHandler]
              /\ startPc' = "clone"
              /\ UNCHANGED <<failPos, wgCount, wgMine, sockets>>
         ELSE /\ sockets' = [sockets EXCEPT ![idx].st = "closed"]
              /\ StartPanics
              /\ UNCHANGED handlers
    /\ UNCHANGED <<connectVars, lockVars, idx, curAddr, waitReturns, workers,
                   rotationWorker, metricsWorker, spawnLog, process>>

\* StartCloneWg with the clone left out: the worker thread gets no handle of its own
StartCloneWgMissing ==
    /\ process = "alive"
    /\ startPc = "clone"
    /\ wgCount' = wgCount
    /\ startPc' = "spawn"
    /\ UNCHANGED <<connectVars, lockVars, idx, curAddr, failPos, handlers, wgMine,
                   waitReturns, sockets, workers, rotationWorker, metricsWorker, spawnLog,
                   process>>

\* let wg = wg.clone();
StartCloneWg ==
    /\ process = "alive"
    /\ startPc = "clone"
    /\ wgCount' = wgCount + 1
    /\ startPc' = "spawn"
    /\ UNCHANGED <<connectVars, lockVars, idx, curAddr, failPos, handlers, wgMine,
                   waitReturns, sockets, workers, rotationWorker, metricsWorker, spawnLog,
                   process>>

\* StartSpawn with the thread not started inside the loop: setup first, spawning later
StartSpawnDeferred ==
    /\ process = "alive"
    /\ startPc = "spawn"
    /\ idx' = idx + 1
    /\ startPc' = LoopPc(idx + 1)
    /\ UNCHANGED <<connectVars, lockVars, curAddr, failPos, handlers, wgMine, workers,
                   waitReturns, sockets, rotationWorker, metricsWorker, wgCount, process,
                   spawnLog>>

\* StartSpawn with the loop stepping over the address after the one just spawned
StartSpawnSkipsNext ==
    /\ process = "alive"
    /\ startPc = "spawn"
    /\ workers' = [workers EXCEPT ![idx] = "serving"]
    /\ spawnLog' = Append(spawnLog, [kind |-> "listener", pos |-> idx])
    /\ idx' = idx + 2
    /\ startPc' = LoopPc(idx + 2)
    /\ UNCHANGED <<connectVars, lockVars, curAddr, failPos, handlers, wgMine,
                   waitReturns, sockets, rotationWorker, metricsWorker, wgCount, process>>

\* std::thread::spawn(move || { tlsserv.listen_and_serve(); drop(wg); }) and the
\* step of the for loop to the next address
StartSpawn ==
    /\ process = "alive"
    /\ startPc = "spawn"
    /\ workers' = [workers EXCEPT ![idx] = "serving"]
    /\ spawnLog' = Append(spawnLog, [kind |-> "listener", pos |-> idx])
    /\ idx' = idx + 1
    /\ startPc' = LoopPc(idx + 1)
    /\ UNCHANGED <<connectVars, lockVars, curAddr, failPos, handlers, wgMine,
                   waitReturns, sockets, rotationWorker, metricsWorker, wgCount, process>>

\* wg.wait(): returns at once when start's handle is the only one left, otherwise
\* drops that handle and blocks
StartWait ==
    /\ process = "alive"
    /\ startPc = "wait"
    /\ wgCount' = wgCount - 1
    /\ wgMine' = FALSE
    /\ IF wgCount = 1
       THEN /\ startPc' = "returned"
            /\ waitReturns' = waitReturns + 1
       ELSE /\ startPc' = "blocked"
            /\ UNCHANGED waitReturns
    /\ UNCHANGED <<connectVars, lockVars, idx, curAddr, failPos, handlers, sockets,
                   workers, rotationWorker, metricsWorker, spawnLog, process>>

\* the blocked wg.wait() wakes up: every handle has been dropped
StartWaitReturn ==
    /\ process = "alive"
    /\ startPc = "blocked"
    /\ wgCount = 0
    /\ startPc' = "returned"
    /\ waitReturns' = waitReturns + 1
    /\ UNCHANGED <<connectVars, lockVars, idx, curAddr, failPos, handlers, wgMine,
                   sockets, workers, rotationWorker, metricsWorker, wgCount, spawnLog,
                   process>>

(* ---- the RwLock<KeyRotator> ---- *)

\* CanRead for a rotator shared without the lock: a read is never held back
CanReadUnguarded == TRUE

\* RwLock::read is granted while no writer holds the lock
CanRead == lock.writers = 0

\* RwLock::write is granted while nobody holds the lock
CanWrite == lock.writers = 0 /\ lock.readers = {}

(* ---- a listener worker: the thread spawned for position i ---- *)

\* serving a handshake: the handler takes the read lock and reads the first key field
ListenerReadBegin(i) ==
    /\ process = "alive"
    /\ workers[i] = "serving"
    /\ CanRead
    /\ lock' = [lock EXCEPT !.readers = @ \cup {i}]
    /\ seen' = [seen EXCEPT ![i] = keys.a]
    /\ workers' = [workers EXCEPT ![i] = "reading"]
    /\ UNCHANGED <<connectVars, keys, torn, startVars, sockets, rotationWorker,
                   metricsWorker, wgCount, spawnLog, process>>

\* it reads the second key field and releases the read lock
ListenerReadEnd(i) ==
    /\ process = "alive"
    /\ workers[i] = "reading"
    /\ torn' = (torn \/ keys.b # seen[i])
    /\ lock' = [lock EXCEPT !.readers = @ \ {i}]
    /\ seen' = [seen EXCEPT ![i] = 0]
    /\ workers' = [workers EXCEPT ![i] = "serving"]
    /\ UNCHANGED <<connectVars, keys, startVars, sockets, rotationWorker,
                   metricsWorker, wgCount, spawnLog, process>>

\* ListenerServeReturns with the handle dropped as soon as the serve loop returns, and
\* dropped again when the closure ends
ListenerServeReturnsDrops(i) ==
    /\ process = "alive"
    /\ workers[i] = "serving"
    /\ workers' = [workers EXCEPT ![i] = "returning"]
    /\ wgCount' = wgCount - 1
    /\ UNCHANGED <<connectVars, lockVars, startVars, sockets, rotationWorker,
                   metricsWorker, spawnLog, process>>

\* tlsserv.listen_and_serve() returns
ListenerServeReturns(i) ==
    /\ process = "alive"
    /\ workers[i] = "serving"
    /\ workers' = [workers EXCEPT ![i] = "returning"]
    /\ UNCHANGED <<connectVars, lockVars, startVars, sockets, rotationWorker,
                   metricsWorker, wgCount, spawnLog, process>>

\* tlsserv.listen_and_serve() panics: the thread unwinds
ListenerServePanics(i) ==
    /\ process = "alive"
    /\ workers[i] = "serving"
    /\ workers' = [workers EXCEPT ![i] = "unwinding"]
    /\ UNCHANGED <<connectVars, lockVars, startVars, sockets, rotationWorker,
                   metricsWorker, wgCount, spawnLog, process>>

\* ListenerExit with the handle given up on a normal return only: a panicking worker
\* leaks it
ListenerExitLeaksOnPanic(i) ==
    /\ process = "alive"
    /\ workers[i] \in {"returning", "unwinding"}
    /\ wgCount' = IF workers[i] = "returning" THEN wgCount - 1 ELSE wgCount
    /\ sockets' = [sockets EXCEPT ![i].st = "closed"]
    /\ workers' = [workers EXCEPT ![i] = IF workers[i] = "returning" THEN "exited"
                                                                     ELSE "crashed"]
    /\ UNCHANGED <<connectVars, lockVars, startVars, rotationWorker, metricsWorker,
                   spawnLog, process>>

\* ListenerExit with the handle leaked instead of dropped
ListenerExitKeepsToken(i) ==
    /\ process = "alive"
    /\ workers[i] \in {"returning", "unwinding"}
    /\ wgCount' = wgCount
    /\ sockets' = [sockets EXCEPT ![i].st = "closed"]
    /\ workers' = [workers EXCEPT ![i] = IF workers[i] = "returning" THEN "exited"
                                                                     ELSE "crashed"]
    /\ UNCHANGED <<connectVars, lockVars, startVars, rotationWorker, metricsWorker,
                   spawnLog, process>>

\* drop(wg), or the drop of the closure's captures while unwinding; the closure ends,
\* tlsserv is dropped with its listening socket, and the thread is gone
ListenerExit(i) ==
    /\ process = "alive"
    /\ workers[i] \in {"returning", "unwinding"}
    /\ wgCount' = wgCount - 1
    /\ sockets' = [sockets EXCEPT ![i].st = "closed"]
    /\ workers' = [workers EXCEPT ![i] = IF workers[i] = "returning" THEN "exited"
                                                                     ELSE "crashed"]
    /\ UNCHANGED <<connectVars, lockVars, startVars, rotationWorker, metricsWorker,
                   spawnLog, process>>

(* ---- the rotation worker: the thread periodic_rotate spawns ---- *)

\* a rotation begins: the write lock is taken and the first key field is written
RotateBegin ==
    /\ process = "alive"
    /\ rotationWorker = "idle"
    /\ keys.a < MaxRotations
    /\ CanWrite
    /\ lock' = [lock EXCEPT !.writers = @ + 1]
    /\ keys' = [keys EXCEPT !.a = @ + 1]
    /\ rotationWorker' = "writing"
    /\ UNCHANGED <<connectVars, torn, seen, startVars, sockets, workers, metricsWorker,
                   wgCount, spawnLog, process>>

\* the rotation ends: the second key field is written and the write lock released
RotateEnd ==
    /\ process = "alive"
    /\ rotationWorker = "writing"
    /\ keys' = [keys EXCEPT !.b = keys.a]
    /\ lock' = [lock EXCEPT !.writers = @ - 1]
    /\ rotationWorker' = "idle"
    /\ UNCHANGED <<connectVars, torn, seen, startVars, sockets, workers, metricsWorker,
                   wgCount, spawnLog, process>>

\* the rotation thread ends on an internal failure, between two rotations
RotationDies ==
    /\ process = "alive"
    /\ rotationWorker = "idle"
    /\ rotationWorker' = "dead"
    /\ UNCHANGED <<connectVars, lockVars, startVars, sockets, workers, metricsWorker,
                   wgCount, spawnLog, process>>

(* ---- the metrics worker ---- *)

\* MetricsFails with the failure taking the process down instead of the one thread
MetricsFailsAborts ==
    /\ process = "alive"
    /\ metricsWorker = "running"
    /\ metricsWorker' = "panicked"
    /\ process' = "exited"
    /\ workers' = [p \in Positions |->
                     IF workers[p] \in {"serving", "reading", "returning", "unwinding"}
                     THEN "killed" ELSE workers[p]]
    /\ rotationWorker' = IF rotationWorker \in {"idle", "writing"} THEN "killed"
                                                                     ELSE rotationWorker
    /\ UNCHANGED <<connectVars, lockVars, startVars, sockets, wgCount, spawnLog>>

\* metrics::run_metrics returns Err: the expect panics in the metrics thread
MetricsFails ==
    /\ process = "alive"
    /\ metricsWorker = "running"
    /\ metricsWorker' = "panicked"
    /\ UNCHANGED <<connectVars, lockVars, startVars, sockets, workers, rotationWorker,
                   wgCount, spawnLog, process>>

\* MetricsReturns with the metrics thread holding a WaitGroup handle that it drops
MetricsReturnsReleasesToken ==
    /\ process = "alive"
    /\ metricsWorker = "running"
    /\ metricsWorker' = "exited"
    /\ wgCount' = wgCount - 1
    /\ UNCHANGED <<connectVars, lockVars, startVars, sockets, workers, rotationWorker,
                   spawnLog, process>>

\* metrics::run_metrics returns Ok(()): the metrics thread ends
MetricsReturns ==
    /\ process = "alive"
    /\ metricsWorker = "running"
    /\ metricsWorker' = "exited"
    /\ UNCHANGED <<connectVars, lockVars, startVars, sockets, workers, rotationWorker,
                   wgCount, spawnLog, process>>

(* ---- the process ---- *)

\* the thread that called connect and start is the main thread: when it panics, or
\* when start returns to it, the process ends, and every thread and socket with it
ProcessExit ==
    /\ process = "alive"
    /\ \/ callerPc \in {"panicked", "failed"}
       \/ startPc \in {"panicked", "returned"}
    /\ process' = "exited"
    /\ workers' = [p \in Positions |->
                     IF workers[p] \in {"serving", "reading", "returning", "unwinding"}
                     THEN "killed" ELSE workers[p]]
    /\ rotationWorker' = IF rotationWorker \in {"idle", "writing"} THEN "killed"
                                                                     ELSE rotationWorker
    /\ metricsWorker' = IF metricsWorker = "running" THEN "killed" ELSE metricsWorker
    /\ sockets' = [p \in Positions |->
                     IF sockets[p].st = "listening"
                     THEN [sockets[p] EXCEPT !.st = "closed"] ELSE sockets[p]]
    /\ UNCHANGED <<connectVars, lockVars, startVars, wgCount, spawnLog>>

Next ==
    \/ Connect
    \/ StartRotate
    \/ StartMetrics
    \/ StartNewWaitGroup
    \/ StartResolve
    \/ StartBind
    \/ StartConstruct
    \/ StartCloneWg
    \/ StartSpawn
    \/ StartWait
    \/ StartWaitReturn
    \/ \E i \in Positions : ListenerReadBegin(i)
    \/ \E i \in Positions : ListenerReadEnd(i)
    \/ \E i \in Positions : ListenerServeReturns(i)
    \/ \E i \in Positions : ListenerServePanics(i)
    \/ \E i \in Positions : ListenerExit(i)
    \/ RotateBegin
    \/ RotateEnd
    \/ RotationDies
    \/ MetricsFails
    \/ MetricsReturns
    \/ ProcessExit

Spec == Init /\ [][Next]_vars

\* the scheduler runs every thread that can take a step: the orchestrating thread goes
\* on through start, a blocked wait wakes up once the count is zero, a listener thread
\* whose serve loop has ended goes on to its end, and a process whose main thread is
\* done exits. Nothing makes a serve loop, the rotation or the metrics server end.
StartStep ==
    \/ StartRotate \/ StartMetrics \/ StartNewWaitGroup \/ StartResolve \/ StartBind
    \/ StartConstruct \/ StartCloneWg \/ StartSpawn \/ StartWait \/ StartWaitReturn

FairSpec ==
    /\ Spec
    /\ WF_vars(StartStep)
    /\ \A i \in Positions : WF_vars(ListenerExit(i))
    /\ WF_vars(RotateEnd)
    /\ WF_vars(ProcessExit)
(* ---- a caller that calls start again ---- *)

\* number of times one instance's start is invoked at most
MaxStarts == 2

\* the number of start invocations so far: each begins by spawning a rotation thread
Starts == Len(SelectSeq(spawnLog, LAMBDA e : e.kind = "rotation"))

\* start(&mut self) has returned and the caller invokes it again on the same instance:
\* nothing in start looks at listeners or at any other record of an earlier run, so it
\* runs as the first time, from periodic_rotate on. rotationWorker stands for the
\* rotation threads together, so a thread that still runs stays as it is.
StartAgain ==
    /\ process = "alive"
    /\ callerPc = "connected"
    /\ startPc = "returned"
    /\ Starts < MaxStarts
    /\ rotationWorker' = IF rotationWorker \in {"idle", "writing"} THEN rotationWorker
                                                                     ELSE "idle"
    /\ spawnLog' = Append(spawnLog, [kind |-> "rotation", pos |-> 0])
    /\ startPc' = "metrics"
    /\ UNCHANGED <<connectVars, lockVars, idx, curAddr, failPos, handlers, wgMine,
                   waitReturns, sockets, workers, metricsWorker, wgCount, process>>

\* the program with a caller that may call start again after it has returned
NextAnyCaller == Next \/ StartAgain

SpecAnyCaller == Init /\ [][NextAnyCaller]_vars

(* ---- the properties ---- *)

\* the listener workers that have been spawned and have not ended
Running == {p \in Positions : workers[p] \in {"serving", "reading", "returning", "unwinding"}}

\* the listener workers that have ended by themselves
Ended == {p \in Positions : workers[p] \in {"exited", "crashed"}}

\* the positions for which a listener worker was spawned
Spawned == {p \in Positions : workers[p] # "none"}

\* C1: whenever start's wg.wait() has returned, no listener worker spawned by start is
\* still running: each configured position's worker has ended, and there is no other.
C1_WaitReturnsOnlyAfterAllExited ==
    startPc = "returned" =>
        /\ Running = {}
        /\ \A p \in Positions : workers[p] # "killed"
        /\ Ended = 1..Len(Addrs)

\* start has returned after having blocked on two workers, one of which crashed
C1_Witness ==
    /\ startPc = "returned"
    /\ Cardinality(Ended) = 2
    /\ \E p \in Positions : workers[p] = "crashed"
    /\ process = "alive"

\* C2: under fair scheduling, once start is at its wait and every spawned listener
\* worker has ended, the wait returns eventually; it returns at most once and stays
\* returned; with no configured address it returns without ever blocking.
C2_WaitReturnsOnceAllExited ==
    /\ [](((startPc \in {"wait", "blocked"}) /\ Running = {}) => <>(startPc = "returned"))
    /\ [][waitReturns' # waitReturns => (waitReturns = 0 /\ waitReturns' = 1)]_vars
    /\ [][startPc = "returned" => startPc' = "returned"]_vars
    /\ []((state # NoValue /\ startPc = "blocked") => Len(Addrs) > 0)
    /\ []((state # NoValue /\ startPc = "wait" /\ Running = {}) => wgCount = 1)

\* start is blocked in its wait and the last of two workers has just ended
C2_Witness ==
    /\ startPc = "blocked"
    /\ wgCount = 0
    /\ Cardinality(Ended) = 2

\* C3: at most one writer holds the rotator's lock, no reader holds it together with a
\* writer, and no reader sees key fields of two different rotations: while a reader
\* holds the lock the two fields agree with each other and with what it read first.
C3_RotatorLockAtomic ==
    /\ lock.writers <= 1
    /\ ~(lock.writers > 0 /\ lock.readers # {})
    /\ ~torn
    /\ \A p \in lock.readers : keys.a = keys.b /\ seen[p] = keys.a

\* two listener workers read the keys together after a rotation
C3_Witness ==
    /\ Cardinality(lock.readers) = 2
    /\ keys.a >= 1
    /\ rotationWorker = "idle"

\* start has reached wg.wait(): the setup of every configured address succeeded
AtWait == startPc \in {"wait", "blocked", "returned"}

\* the listener entries of the spawn log, in spawn order
ListenerSpawns == SelectSeq(spawnLog, LAMBDA e : e.kind = "listener")

\* whether resolving position p's host yields a candidate, and the first one
Resolves(p) == to_socket_addrs(Addrs[p]).ok /\ Len(to_socket_addrs(Addrs[p]).cands) > 0
ResolvedAddr(p) == to_socket_addrs(Addrs[p]).cands[1]

\* the per-position part of C4: K workers, position by position, each on the address
\* its position resolves to
OnePerPosition ==
    /\ Len(ListenerSpawns) = Len(Addrs)
    /\ \A p \in 1..Len(Addrs) :
         /\ ListenerSpawns[p].pos = p
         /\ workers[p] # "none"
         /\ handlers[p] # NoValue
         /\ Resolves(p)
         /\ handlers[p].addr = ResolvedAddr(p)
         /\ sockets[p].addr = ResolvedAddr(p)
    /\ \A p \in Positions : p > Len(Addrs) => workers[p] = "none"

\* C4 as stated: once start is at its wait, it has spawned exactly one listener worker
\* per configured address, and the workers' resolved addresses are pairwise distinct.
C4_DistinctAddresses ==
    AtWait =>
        /\ OnePerPosition
        /\ \A p, q \in 1..Len(Addrs) : p # q => handlers[p].addr # handlers[q].addr

\* C4, amended: once start is at its wait it has spawned exactly one listener worker
\* per configured position, in order, each bound to the first address its position
\* resolves to; and at no time are two sockets of the server listening on one address
\* (two workers share an address only if the earlier had ended before the later bind).
C4_OneWorkerPerPosition ==
    /\ AtWait => OnePerPosition
    /\ \A p, q \in Positions :
         (p # q /\ sockets[p].st = "listening" /\ sockets[q].st = "listening")
             => sockets[p].addr # sockets[q].addr

\* start waits with two workers serving on two different addresses
C4_Witness ==
    /\ startPc = "blocked"
    /\ Len(Addrs) = 2
    /\ workers[1] = "serving" /\ workers[2] = "serving"
    /\ handlers[1].addr # handlers[2].addr

\* C5 as stated: when the setup of position failPos has failed, no socket was bound and
\* no worker spawned for that position or a later one, and start is not at its wait.
C5_NothingBoundFromFailure ==
    failPos # 0 =>
        /\ \A p \in Positions : p >= failPos =>
             sockets[p].st = "unbound" /\ workers[p] = "none"
        /\ startPc = "panicked"
        /\ waitReturns = 0

\* position p's setup cannot succeed: its host does not resolve, or the address it
\* resolves to is held by another process
SetupMustFail(p) == ~Resolves(p) \/ ResolvedAddr(p) \in ExternalInUse

\* C5, amended: when the setup of position failPos has failed, start has panicked
\* there and never waits; no worker is spawned and no handler kept for that position or
\* a later one, no socket is bound for a later one, and the position's own socket is
\* not listening: it was either never bound, or (handler construction failed after a
\* successful bind) bound and closed again.
C5_AbortAtFailure ==
    /\ failPos # 0 =>
         /\ \A p \in Positions : p >= failPos =>
              /\ workers[p] = "none"
              /\ handlers[p] = NoValue
              /\ sockets[p].st # "listening"
              /\ p > failPos => sockets[p].st = "unbound"
         /\ sockets[failPos].st = "closed" =>
              Resolves(failPos) /\ sockets[failPos].addr = ResolvedAddr(failPos)
         /\ startPc = "panicked"
         /\ waitReturns = 0
    /\ state # NoValue =>
         \A p \in 1..Len(Addrs) : SetupMustFail(p) =>
              /\ ~AtWait
              /\ \A q \in Positions : q >= p =>
                   workers[q] = "none" /\ sockets[q].st = "unbound"

\* handler construction failed for the second address while the first worker serves
C5_Witness ==
    /\ failPos = 2
    /\ sockets[2].st = "closed"
    /\ workers[1] = "serving"
    /\ process = "alive"

\* no thread of the server is running
NoThreadRuns ==
    /\ Running = {}
    /\ rotationWorker \notin {"idle", "writing"}
    /\ metricsWorker # "running"

NothingStarted ==
    /\ startPc = "notcalled"
    /\ spawnLog = <<>>
    /\ Spawned = {}
    /\ rotationWorker = "none"
    /\ metricsWorker = "none"
    /\ \A p \in Positions : sockets[p].st = "unbound" /\ handlers[p] = NoValue

\* C7: when KeyRotator::connect fails, connect returns that very error, there is no
\* server state (so no TLS configuration) and no instance, and no thread or socket.
C7_RotatorErrorPropagates ==
    (callerPc = "failed" \/ rotatorResult \in RotateErrors) =>
        /\ callerPc = "failed"
        /\ rotatorResult \in RotateErrors
        /\ connectResult = [tag |-> "Err", err |-> rotatorResult]
        /\ state = NoValue
        /\ listeners = <<>>
        /\ rotatorConnects = 1
        /\ NothingStarted

\* the rotator failed for a configuration whose keys would not have built either
C7_Witness ==
    /\ callerPc = "failed"
    /\ connectResult = [tag |-> "Err", err |-> "KeyError"]
    /\ config.tls_secret_keys = <<>>

\* C8 as stated: connect always ends by returning an instance or an error value.
C8_ConnectNeverAborts ==
    callerPc # "init" =>
        /\ callerPc \in {"connected", "failed"}
        /\ connectResult.tag \in {"Ok", "Err"}

\* the first configured private key exists and is usable with the certificate chain
FirstKeyUsable ==
    Len(config.tls_secret_keys) > 0 /\ config.tls_secret_keys[1] = "goodkey"

\* C8, amended: connect returns the key rotator's error as an error value; with the
\* rotator connected it returns an instance when the first private key is usable, and
\* panics, producing no instance and starting nothing, when the private-key list is
\* empty or the key/certificate pair is invalid.
C8_ConnectOutcomes ==
    callerPc # "init" =>
        /\ callerPc = "failed" <=> rotatorResult \in RotateErrors
        /\ callerPc = "failed" => connectResult = [tag |-> "Err", err |-> rotatorResult]
        /\ callerPc = "panicked" <=> (rotatorResult = "Ok" /\ ~FirstKeyUsable)
        /\ callerPc = "panicked" =>
             connectResult = NoValue /\ state = NoValue /\ NothingStarted
        /\ callerPc = "connected" <=> (rotatorResult = "Ok" /\ FirstKeyUsable)
        /\ callerPc = "connected" =>
             connectResult = [tag |-> "Ok"] /\ state.tag = "KeServerState"

\* connect panicked on an invalid first key
C8_Witness ==
    /\ callerPc = "panicked"
    /\ config.tls_secret_keys = <<"badkey", "goodkey">>

\* C9: the step in which the metrics server fails changes the metrics worker alone: the
\* listener workers, the rotation worker, start's position, the WaitGroup count, the
\* lock and the process stay as they are, and so does whether the wait can return.
C9_MetricsFailureIsolated ==
    [][(metricsWorker = "running" /\ metricsWorker' = "panicked") =>
          /\ workers' = workers
          /\ rotationWorker' = rotationWorker
          /\ startPc' = startPc
          /\ wgCount' = wgCount
          /\ wgMine' = wgMine
          /\ lock' = lock
          /\ keys' = keys
          /\ sockets' = sockets
          /\ process' = process
          /\ callerPc' = callerPc]_vars

\* the metrics worker has failed while start waits on a serving listener and the
\* rotation worker is in the middle of a rotation
C9_Witness ==
    /\ metricsWorker = "panicked"
    /\ process = "alive"
    /\ startPc = "blocked"
    /\ workers[1] = "serving"
    /\ rotationWorker = "writing"

\* C10: once connect has built the server state it never changes: the configuration is
\* the one connect was given, the TLS configuration the one built from it, and every
\* handler holds that TLS configuration and the configuration's port and timeout.
C10_StateImmutable ==
    /\ [][state # NoValue => state' = state]_vars
    /\ [](state # NoValue =>
            /\ state.config = config
            /\ state.tls_server_config = BuildTlsServerConfig(config)
            /\ \A p \in Positions : handlers[p] # NoValue =>
                 /\ handlers[p].tls_server_config = state.tls_server_config
                 /\ handlers[p].next_port = state.config.next_port
                 /\ handlers[p].timeout = state.config.timeout)

\* two handlers hold the TLS configuration while the metrics worker runs
C10_Witness ==
    /\ state # NoValue
    /\ metricsWorker = "running"
    /\ handlers[1] # NoValue /\ handlers[2] # NoValue
    /\ workers[1] = "reading" /\ workers[2] = "reading"

\* the lifecycle state of the server instance, read off the program's state
Lifecycle ==
    CASE state = NoValue       -> "Unstarted"
      [] startPc = "notcalled" -> "Configured"
      [] startPc = "returned"  -> "Stopped"
      [] OTHER                 -> "Running"

\* C11: the instance's lifecycle state changes only from Unstarted to Configured (by a
\* connect that returned an instance), from Configured to Running (start invoked), and
\* from Running to Stopped (when every listener worker has ended); never backwards, so
\* a stopped instance does not run a second time, whatever the caller invokes.
C11_LifecycleForwardOnly ==
    [][\/ Lifecycle' = Lifecycle
       \/ /\ Lifecycle = "Unstarted" /\ Lifecycle' = "Configured"
          /\ connectResult' = [tag |-> "Ok"]
       \/ /\ Lifecycle = "Configured" /\ Lifecycle' = "Running"
       \/ /\ Lifecycle = "Running" /\ Lifecycle' = "Stopped"
          /\ Running = {}]_vars

\* C12: as long as start has not been invoked, also right after connect has returned
\* an instance, no socket is bound, no thread is spawned and listeners is empty.
C12_ConnectStartsNothing ==
    startPc = "notcalled" => NothingStarted /\ listeners = <<>> /\ wgCount = 0

\* connect has returned an instance for a configuration with two addresses and metrics
C12_Witness ==
    /\ callerPc = "connected"
    /\ startPc = "notcalled"
    /\ Len(config.addrs) = 2
    /\ config.metrics_config = "Some"

\* C13: KeyRotator::connect is called once, by connect, before any thread is spawned:
\* whenever an instance or a spawned thread exists the call count is exactly one and
\* the call had succeeded, and no step after connect, of start or of a worker, calls it.
C13_RotatorConnectedOnce ==
    /\ [](rotatorConnects <= 1)
    /\ []((state # NoValue \/ spawnLog # <<>> \/ startPc # "notcalled") =>
            (rotatorConnects = 1 /\ rotatorResult = "Ok"))
    /\ [][callerPc # "init" => rotatorConnects' = rotatorConnects]_vars

\* a second start has spawned its threads and the rotator was still connected once
C13_Witness ==
    /\ Starts = 2
    /\ workers[1] = "serving"
    /\ rotatorConnects = 1

\* the spawn order one start follows for the instance's configuration
ExpectedSpawns ==
    <<[kind |-> "rotation", pos |-> 0]>>
    \o (IF state.config.metrics_config = "Some"
        THEN <<[kind |-> "metrics", pos |-> 0]>> ELSE <<>>)
    \o [p \in 1..Len(Addrs) |-> [kind |-> "listener", pos |-> p]]

\* C14: the threads are spawned in the order rotation worker, metrics worker (if and
\* only if metrics are configured, once), listener workers by position: the spawn log
\* is always a prefix of that order, complete when start waits, and a thread exists
\* exactly when it is in the log.
C14_SpawnOrder ==
    state # NoValue =>
        /\ Len(spawnLog) <= Len(ExpectedSpawns)
        /\ spawnLog = SubSeq(ExpectedSpawns, 1, Len(spawnLog))
        /\ AtWait => spawnLog = ExpectedSpawns
        /\ rotationWorker # "none" <=> (startPc # "notcalled")
        /\ metricsWorker # "none" <=>
             (state.config.metrics_config = "Some" /\ startPc \notin {"notcalled", "metrics"})
        /\ \A p \in Positions :
             workers[p] # "none" <=>
                 (\E k \in 1..Len(spawnLog) : spawnLog[k] = [kind |-> "listener", pos |-> p])

\* all four threads of a configuration with metrics and two addresses are spawned
C14_Witness ==
    /\ state # NoValue
    /\ Len(spawnLog) = 4
    /\ spawnLog = ExpectedSpawns

\* C15: listeners is empty as long as start has not been invoked, and it is not empty
\* once start has spawned a listener worker.
C15_ListenersTellStarted ==
    /\ startPc = "notcalled" => listeners = <<>>
    /\ Spawned # {} => listeners # <<>>

\* C16: whenever an instance exists, its TLS configuration enables TLS 1.3 alone,
\* advertises the one protocol ntske/1, has client authentication off, and carries the
\* configured certificate chain with the first configured private key.
C16_TlsConfigPolicy ==
    state # NoValue =>
        /\ state.tls_server_config.versions = <<"TLSv1_3">>
        /\ state.tls_server_config.alpn = <<"ntske/1">>
        /\ state.tls_server_config.client_auth = "NoClientAuth"
        /\ state.tls_server_config.cert =
             [chain |-> config.tls_certs, key |-> config.tls_secret_keys[1]]
        /\ \A p \in Positions : handlers[p] # NoValue =>
             handlers[p].tls_server_config.versions = <<"TLSv1_3">>

\* an instance built from a list of two private keys serves with two listener workers
C16_Witness ==
    /\ state # NoValue
    /\ Len(config.tls_secret_keys) = 2
    /\ state.tls_server_config.cert.key = "goodkey"
    /\ workers[1] = "serving" /\ workers[2] = "serving"
    /\ startPc = "blocked"

\* the WaitGroup handles held for listener workers: all but start's own
Tokens == wgCount - (IF wgMine THEN 1 ELSE 0)

\* C17 as stated: while the process lives, the number of outstanding worker tokens is
\* not negative and equals the number of spawned listener workers that have not ended.
C17_TokensEqualRunning ==
    process = "alive" => (Tokens >= 0 /\ Tokens = Cardinality(Running))

\* C17, amended: while the process lives, the number of outstanding worker tokens is
\* not negative and equals the number of spawned listener workers that have not ended,
\* plus one between wg.clone() and thread::spawn, when start holds the token of the
\* worker it is about to spawn; a worker gives its token up in its last step only.
C17_TokensAccounted ==
    /\ [](process = "alive" =>
            /\ wgCount >= 0
            /\ Tokens >= 0
            /\ Tokens = Cardinality(Running) + (IF startPc = "spawn" THEN 1 ELSE 0))
    /\ [][\A p \in Positions :
            (workers[p] # workers'[p] /\ workers'[p] \notin {"exited", "crashed"})
                => wgCount' >= wgCount]_vars

\* start has cloned the token for the second worker and not spawned it yet
C17_Witness ==
    /\ startPc = "spawn"
    /\ idx = 2
    /\ Running = {1}
    /\ Tokens = 2

\* every spawned listener worker's serve loop has ended, by returning or by panicking
ServeLoopsEnded == \A p \in Positions : workers[p] \notin {"serving", "reading"}

\* C18: a listener worker whose serve loop panics gives its token up as it unwinds:
\* the step that ends it lowers the count by one, and under fair scheduling, once every
\* serve loop has ended, one of them by a panic (its worker unwinding or gone), start's
\* wait returns.
C18_CrashedWorkerReleasesToken ==
    /\ [][\A p \in Positions :
            (workers[p] = "unwinding" /\ workers'[p] = "crashed")
                => wgCount' = wgCount - 1]_vars
    /\ ((startPc \in {"wait", "blocked"}) /\ ServeLoopsEnded
          /\ \E p \in Positions : workers[p] \in {"unwinding", "crashed"})
       ~> (startPc = "returned")

\* start has returned after both of its listener workers had panicked
C18_Witness ==
    /\ startPc = "returned"
    /\ workers[1] = "crashed" /\ workers[2] = "crashed"

\* C19: the rotation and metrics workers hold no token: a step of theirs (their end or
\* failure included) leaves the WaitGroup count, start's position and the listener
\* workers as they are, the blocked wait cannot return while a listener worker runs,
\* whatever state those two are in, and start returns only with no listener running.
C19_ReturnDependsOnListenersOnly ==
    /\ [][((rotationWorker' # rotationWorker \/ metricsWorker' # metricsWorker)
             /\ startPc \notin {"notcalled", "metrics"} /\ process' = "alive")
          => (wgCount' = wgCount /\ wgMine' = wgMine /\ startPc' = startPc
              /\ workers' = workers)]_vars
    /\ []((startPc = "blocked" /\ Running # {}) => wgCount > 0)
    /\ [](startPc = "returned" => Running = {})

\* start has returned while the rotation and the metrics worker still run
C19_Witness ==
    /\ startPc = "returned"
    /\ process = "alive"
    /\ rotationWorker = "writing"
    /\ metricsWorker = "running"
    /\ Cardinality(Ended) = 2

\* start is inside its for loop, at position idx
InLoop == startPc \in {"resolve", "bind", "construct", "clone", "spawn"}

\* C20: setup and spawning alternate: while start works on position idx, every earlier
\* position has its socket bound and its worker spawned and no later position has
\* either; so when the setup of position failPos fails, the rotation worker, the
\* metrics worker (if configured) and exactly the listener workers of the earlier
\* positions have been spawned, each on a socket that was bound.
C20_SetupAndSpawnInterleaved ==
    /\ InLoop =>
         /\ workers[idx] = "none"
         /\ startPc \in {"resolve", "bind"} => sockets[idx].st = "unbound"
         /\ \A p \in Positions :
              /\ p < idx => (workers[p] # "none" /\ sockets[p].st # "unbound")
              /\ p > idx => (workers[p] = "none" /\ sockets[p].st = "unbound")
    /\ failPos # 0 =>
         /\ rotationWorker # "none"
         /\ metricsWorker # "none" <=> state.config.metrics_config = "Some"
         /\ Spawned = 1..(failPos - 1)
         /\ ListenerSpawns = [p \in 1..(failPos - 1) |-> [kind |-> "listener", pos |-> p]]
         /\ \A p \in 1..(failPos - 1) :
              /\ sockets[p].st \in {"listening", "closed"}
              /\ p \in Running => sockets[p].st = "listening"

\* the second address fails to resolve while the first worker reads keys and the
\* metrics worker runs
C20_Witness ==
    /\ startPc = "panicked"
    /\ failPos = 2
    /\ process = "alive"
    /\ sockets[2].st = "unbound"
    /\ workers[1] = "reading"
    /\ metricsWorker = "running"


==========================================================================
